---------------------------- MODULE Spec2Model ----------------------------
(***************************************************************************)
(* Vision-based sorting unit: conveyor (movement/conveyor.py), sorter      *)
(* (movement/sorter.py), detector (detection/detector.py) and the          *)
(* orchestrator (main.py).                                                  *)
(*                                                                          *)
(* Units.  Time is counted in ticks of 0.1 s.  Speeds are in cm/s           *)
(* (0.1 m/s = 10), distances in cm (0.5 m = 50), angles in degrees and the  *)
(* pulse interval in microseconds.                                          *)
(***************************************************************************)
EXTENDS Integers, Sequences, FiniteSets, TLC

(***************************************************************************)
(* Program constants                                                        *)
(***************************************************************************)
bolt_angle == 0
nut_angle == 90
default_angle == 45
hold_time == 3
distance_to_flapper == 50
max_speed == 100
InitialSpeed == 10
ServoSettleTicks == 5

FrameQueueMaxsize == 10
conf_threshold == 25

HoldTicks == hold_time * 10

(***************************************************************************)
(* Bounds of the model                                                      *)
(***************************************************************************)
MaxActs == 2
MaxCallTime == 1
MaxErrors == 2
MaxSteppers == 2
NumAdjusters == 1
MaxFrames == 13
MaxFramesRestarted == 3
MaxWorkers == 2
MaxCaptures == 2
MaxCleanupTime == 12

Threads == {"main", "conveyor", "camera", "capture"}
Classes == {"bolt", "nut", "unknown"}
\* float("nan"), which float(input()) accepts.  It is written as an integer
\* below every speed: like nan it fails every test of the form x > 0 and
\* 0 < x <= max_speed, and min(nan, max_speed) is nan as Min(NaN, max_speed)
\* is NaN; the one test it would pass as an integer, x <= 0, asks IsNaN first
NaN == -1000000
IsNaN(x) == x = NaN

\* arguments of set_speed: negative, zero, 0.2 m/s, and above max_speed
SpeedInputs == {-100, 0, 20, 150}
PositiveSpeedInputs == {v \in SpeedInputs : v > 0}
\* arguments of adjust_speed (control_loop: +0.25 and -0.25 m/s)
StepInputs == {25, -25}
Adjusters == 1..NumAdjusters

ClassLists == {cs \in UNION {[1..n -> Classes] : n \in 1..MaxActs} : TRUE}

VARIABLES
    now,          \* wall clock, in ticks
    speed,        \* ConveyorBelt.speed
    pulse_interval, \* ConveyorBelt.pulse_interval
    conv_running, \* ConveyorBelt.running
    direction,    \* ConveyorBelt.direction
    step_pin,     \* level last written to step_pin
    steppers,     \* the send_steps threads, in creation order: where each one is
    adj,          \* the callers of adjust_speed: where each one is, and its new_speed
    lastArg,      \* <<v>> after set_speed(v) was last called, <<>> before the first call
    attached,     \* Sorter.conveyor is not None
    angle,        \* angle last commanded to the servo (ChangeDutyCycle)
    acts,         \* the Timer threads started by handle_detection, in creation order
    nErrors,      \* ValueErrors raised by handle_detection
    cleanupPc,    \* Sorter.cleanup: "idle", "moving" (in move_to_angle), "done"
    cleanupDue,   \* when cleanup's move_to_angle sleep ends
    released,     \* number of servo.stop()/GPIO.cleanup() executed
    afterRelease, \* servo commands issued after the servo was released
    frame_queue,  \* HailoObjectDetector.frame_queue: the frames, oldest first
    result_queue, \* HailoObjectDetector.result_queue: the results (frame, classes), oldest first
    stop_thread,  \* HailoObjectDetector.stop_thread
    workers,      \* the _inference_thread threads, in creation order
    prod,         \* the callers of detect_objects: where each is, its frame, the frame of the result it last got
    nextFrame,    \* frames handed to detect_objects so far
    joinPc,       \* stop_inference: "idle", or "joining" inside inference_thread.join()
    sys_running,  \* SortingSystem.running
    detected_objects_queue, \* SortingSystem.detected_objects_queue, oldest first
    pc,           \* where each thread of main.py is
    wake,         \* when the sleep of each thread of main.py ends
    exc,          \* the exception propagating in each thread of main.py
    ret,          \* where stop_sorting returns to in each thread of main.py
    cap,          \* CameraCapture.cap: "none" or "open"
    cam_running,  \* CameraCapture.running
    camReleases,  \* number of cap.release() executed
    nCaptures,    \* frames read by _capture_frames
    nHanded       \* objects sort_objects passed to handle_detection

vars == <<now, speed, pulse_interval, conv_running, direction, step_pin,
          steppers, adj, lastArg, attached, angle, acts, nErrors,
          cleanupPc, cleanupDue, released, afterRelease,
          frame_queue, result_queue, stop_thread, workers, prod, nextFrame, joinPc,
          sys_running, detected_objects_queue, pc, wake, exc, ret, cap,
          cam_running, camReleases, nCaptures, nHanded>>

systemVars == <<sys_running, detected_objects_queue, pc, wake, exc, ret, nHanded>>
cameraVars == <<cap, cam_running, camReleases, nCaptures>>
detectorVars == <<frame_queue, result_queue, stop_thread, workers, prod, nextFrame, joinPc>>
sorterVars == <<angle, acts, nErrors, cleanupPc, cleanupDue, released, afterRelease>>
speedVars == <<speed, pulse_interval, lastArg>>
motionVars == <<conv_running, direction, step_pin, steppers, adj>>
conveyorVars == <<speedVars, motionVars>>

Goto(t, l) == pc' = [pc EXCEPT ![t] = l]

\* every thread but the main one is a daemon thread: it runs only as long as
\* the main thread has not ended
ProcessAlive == pc["main"] \notin {"exit", "dead"}

(***************************************************************************)
(* ConveyorBelt                                                             *)
(***************************************************************************)
Min(a, b) == IF a <= b THEN a ELSE b

\* 1 / (speed * 100) seconds, in microseconds; where it is computed speed is
\* positive or nan, and 1 / (nan * 100) is nan
PulseInterval(s) == IF s > 0 THEN 1000000 \div s ELSE NaN

\* set_speed testing speed < 0
SetSpeedRejectsNegative(v) == ~IsNaN(v) /\ v < 0

\* set_speed with no test of its argument
SetSpeedRejectsNothing(v) == FALSE

\* set_speed's test: "Speed must be greater than 0."; nan <= 0 is False
SetSpeedRejects(v) == ~IsNaN(v) /\ v <= 0

\* set_speed storing the speed as given
ClampSpeedNone(v) == v

\* min(speed, self.max_speed)
ClampSpeed(v) == Min(v, max_speed)

\* the whole body runs under self.lock
set_speed(v) ==
    /\ IF SetSpeedRejects(v)
       THEN UNCHANGED <<speed, pulse_interval>>
       ELSE /\ speed' = ClampSpeed(v)
            /\ pulse_interval' = PulseInterval(ClampSpeed(v))
    /\ lastArg' = <<v>>

\* adjust_speed(step) up to its test of new_speed: speed is read outside the lock
AdjustRead(t) ==
    /\ adj[t].pc = "idle"
    /\ \E step \in StepInputs :
          LET new_speed == speed + step IN
          IF 0 < new_speed /\ new_speed <= max_speed
          THEN adj' = [adj EXCEPT ![t] = [pc |-> "set", new_speed |-> new_speed]]
          ELSE adj' = adj
    /\ UNCHANGED <<now, attached, speedVars, conv_running, direction, step_pin, steppers>>
    /\ UNCHANGED <<sorterVars, detectorVars, systemVars, cameraVars>>

\* adjust_speed: self.set_speed(new_speed)
AdjustWrite(t) ==
    /\ adj[t].pc = "set"
    /\ set_speed(adj[t].new_speed)
    /\ adj' = [adj EXCEPT ![t] = [pc |-> "idle", new_speed |-> 0]]
    /\ UNCHANGED <<now, attached, conv_running, direction, step_pin, steppers>>
    /\ UNCHANGED <<sorterVars, detectorVars, systemVars, cameraVars>>

\* start(): input(), set_speed unless float() raises, running = True, Thread(send_steps)
Start ==
    /\ Len(steppers) < MaxSteppers
    /\ IF ~conv_running
       THEN /\ \/ \E new_speed \in SpeedInputs : set_speed(new_speed)
               \/ UNCHANGED speedVars   \* float(input()) raises ValueError
            /\ conv_running' = TRUE
            /\ steppers' = Append(steppers, "check")
       ELSE UNCHANGED <<speedVars, conv_running, steppers>>
    /\ UNCHANGED <<now, attached, direction, step_pin, adj>>
    /\ UNCHANGED <<sorterVars, detectorVars, systemVars, cameraVars>>

\* stop(): self.running = False when it was True
stop ==
    conv_running' = FALSE

Stop ==
    /\ stop
    /\ UNCHANGED <<now, attached, speedVars, direction, step_pin, steppers, adj>>
    /\ UNCHANGED <<sorterVars, detectorVars, systemVars, cameraVars>>

\* send_steps: the loop test, then the pulse
StepperCheck(i) ==
    /\ ProcessAlive
    /\ steppers[i] = "check"
    /\ IF conv_running
       THEN /\ steppers' = [steppers EXCEPT ![i] = "high"]
            /\ step_pin' = "HIGH"
       ELSE /\ steppers' = [steppers EXCEPT ![i] = "exit"]
            /\ UNCHANGED step_pin
    /\ UNCHANGED <<now, attached, speedVars, conv_running, direction, adj>>
    /\ UNCHANGED <<sorterVars, detectorVars, systemVars, cameraVars>>

\* step_pin LOW, then time.sleep(self.pulse_interval): time.sleep(nan) raises
\* ValueError, which ends the thread
StepperLow(i) ==
    /\ ProcessAlive
    /\ steppers[i] = "high"
    /\ steppers' = [steppers EXCEPT ![i] = IF IsNaN(pulse_interval) THEN "dead" ELSE "low"]
    /\ step_pin' = "LOW"
    /\ UNCHANGED <<now, attached, speedVars, conv_running, direction, adj>>
    /\ UNCHANGED <<sorterVars, detectorVars, systemVars, cameraVars>>

\* time.sleep(self.pulse_interval) ends
StepperWake(i) ==
    /\ ProcessAlive
    /\ steppers[i] = "low"
    /\ steppers' = [steppers EXCEPT ![i] = "check"]
    /\ UNCHANGED <<now, attached, speedVars, conv_running, direction, step_pin, adj>>
    /\ UNCHANGED <<sorterVars, detectorVars, systemVars, cameraVars>>

\* change_direction writing GPIO.LOW whatever the direction was
change_direction_low(d) == "LOW"

\* GPIO.LOW if self.direction == GPIO.HIGH else GPIO.HIGH
change_direction(d) == IF d = "HIGH" THEN "LOW" ELSE "HIGH"

ChangeDirection ==
    /\ direction' = change_direction(direction)
    /\ UNCHANGED <<now, attached, speedVars, conv_running, step_pin, steppers, adj>>
    /\ UNCHANGED <<sorterVars, detectorVars, systemVars, cameraVars>>

(***************************************************************************)
(* HailoObjectDetector                                                      *)
(***************************************************************************)
\* the callers of detect_objects: the capture thread (capture.py, _capture_frames)
Producers == {"capture"}

\* what the device returns for frame f when the network reports a class by
\* its number: class_id, and the confidence in percent
RawOutputs(f) ==
    CASE f % 4 = 0 -> <<>>
      [] f % 4 = 1 -> <<[class_id |-> <<"num", 0>>, confidence |-> 90]>>
      [] f % 4 = 2 -> <<[class_id |-> <<"num", 1>>, confidence |-> 80],
                        [class_id |-> <<"num", 3>>, confidence |-> 10]>>
      [] OTHER     -> <<[class_id |-> <<"num", 7>>, confidence |-> 60]>>

\* the same when the network reports a class by its label
RawLabels(f) ==
    CASE f % 4 = 0 -> <<>>
      [] f % 4 = 1 -> <<[class_id |-> <<"str", "screw_head">>, confidence |-> 90]>>
      [] f % 4 = 2 -> <<[class_id |-> <<"str", "nut">>, confidence |-> 80],
                        [class_id |-> <<"str", "bolt">>, confidence |-> 10]>>
      [] OTHER     -> <<[class_id |-> <<"str", "washer">>, confidence |-> 60]>>

\* vstream.write_and_read(input_tensor) for frame f
DeviceOutputs(f) == {RawOutputs(f), RawLabels(f)}

\* int(x): a number is truncated to an int, a label raises ValueError
python_int(x) ==
    IF x[1] = "num" THEN [ok |-> TRUE, val |-> <<"int", x[2]>>]
    ELSE [ok |-> FALSE, val |-> <<"int", 0>>]

\* _hailo_postprocess: the confidence filter; class_id becomes int(class_id);
\* ok = FALSE stands for the ValueError of int()
hailo_postprocess(raw) ==
    LET Keep(o) == o.confidence > conf_threshold
        kept == SelectSeq(raw, Keep)
    IN  [ok |-> \A i \in 1..Len(kept) : python_int(kept[i].class_id).ok,
         detections |-> [i \in 1..Len(kept) |->
                           [class_id |-> python_int(kept[i].class_id).val]]]

\* class_mapping.get(key, "unknown"): the keys of class_mapping are strings
class_mapping_get(key) ==
    IF key[1] = "str" /\ key[2] \in {"bolt", "screw_body", "screw_head"} THEN "bolt"
    ELSE IF key[1] = "str" /\ key[2] = "nut" THEN "nut"
    ELSE "unknown"

\* _map_classes followed by detect_objects' list of detection["class"]
map_classes(detections) ==
    [i \in 1..Len(detections) |-> class_mapping_get(detections[i].class_id)]

\* a result queue that hands out the newest result first
result_queue_put_front(q, x) == <<x>> \o q

\* self.result_queue.put(detections): queue.Queue is first in, first out
result_queue_put(q, x) == Append(q, x)

\* queue.Queue(maxsize=0) is never full
QueueNeverFull(q) == FALSE

\* frame_queue.full()
QueueFull(q) == Len(q) >= FrameQueueMaxsize

\* the frames a run submits: MaxFrames, and MaxFramesRestarted in all in a
\* run in which start_inference was called again
FrameBound == IF Len(workers) > 1 THEN MaxFramesRestarted ELSE MaxFrames

\* detect_objects(frame) is called: the caller reaches frame_queue.put(frame)
DetectCall(p) ==
    /\ prod[p].pc = "idle"
    /\ nextFrame < FrameBound
    /\ nextFrame' = nextFrame + 1
    /\ prod' = [prod EXCEPT ![p].pc = "put", ![p].frame = nextFrame + 1]
    /\ UNCHANGED <<frame_queue, result_queue, stop_thread, workers, joinPc>>
    /\ UNCHANGED <<now, attached, sorterVars, conveyorVars, systemVars, cameraVars>>

\* frame_queue.put(frame): blocks while the queue is full
DetectPut(p) ==
    /\ prod[p].pc = "put"
    /\ ~QueueFull(frame_queue)
    /\ frame_queue' = Append(frame_queue, prod[p].frame)
    /\ prod' = [prod EXCEPT ![p].pc = "test"]
    /\ UNCHANGED <<result_queue, stop_thread, workers, nextFrame, joinPc>>
    /\ UNCHANGED <<now, attached, sorterVars, conveyorVars, systemVars, cameraVars>>

\* if not self.result_queue.empty(): ... else return []
DetectTest(p) ==
    /\ prod[p].pc = "test"
    /\ prod' = [prod EXCEPT ![p].pc = IF result_queue # <<>> THEN "get" ELSE "idle"]
    /\ UNCHANGED <<frame_queue, result_queue, stop_thread, workers, nextFrame, joinPc>>
    /\ UNCHANGED <<now, attached, sorterVars, conveyorVars, systemVars, cameraVars>>

\* result_queue.get(): blocks while the queue is empty; the classes are returned
DetectGet(p) ==
    /\ prod[p].pc = "get"
    /\ result_queue # <<>>
    /\ result_queue' = Tail(result_queue)
    /\ prod' = [prod EXCEPT ![p].pc = "idle", ![p].got = Head(result_queue).frame]
    /\ UNCHANGED <<frame_queue, stop_thread, workers, nextFrame, joinPc>>
    /\ UNCHANGED <<now, attached, sorterVars, conveyorVars, systemVars, cameraVars>>

start_inference ==
    /\ stop_thread' = FALSE
    /\ workers' = Append(workers, [pc |-> "loop", frame |-> 0, exc |-> "none"])

\* the first call of start_inference
StartInference ==
    /\ workers = <<>>
    /\ joinPc = "idle"
    /\ start_inference
    /\ UNCHANGED <<frame_queue, result_queue, prod, nextFrame, joinPc>>
    /\ UNCHANGED <<now, attached, sorterVars, conveyorVars, systemVars, cameraVars>>

\* start_inference called again: nothing looks at the thread started before
StartInferenceAgain ==
    /\ workers # <<>>
    /\ Len(workers) < MaxWorkers
    /\ nextFrame <= MaxFramesRestarted
    /\ joinPc = "idle"
    /\ start_inference
    /\ UNCHANGED <<frame_queue, result_queue, prod, nextFrame, joinPc>>
    /\ UNCHANGED <<now, attached, sorterVars, conveyorVars, systemVars, cameraVars>>

\* stop_inference up to the join of self.inference_thread (the last one started)
StopInference ==
    /\ workers # <<>>
    /\ joinPc = "idle"
    /\ stop_thread' = TRUE
    /\ joinPc' = "joining"
    /\ UNCHANGED <<frame_queue, result_queue, workers, prod, nextFrame>>
    /\ UNCHANGED <<now, attached, sorterVars, conveyorVars, systemVars, cameraVars>>

\* inference_thread.join() returns
StopInferenceJoined ==
    /\ joinPc = "joining"
    /\ workers[Len(workers)].pc \in {"exit", "dead"}
    /\ joinPc' = "idle"
    /\ UNCHANGED <<frame_queue, result_queue, stop_thread, workers, prod, nextFrame>>
    /\ UNCHANGED <<now, attached, sorterVars, conveyorVars, systemVars, cameraVars>>

\* while not self.stop_thread: if not self.frame_queue.empty():
WorkerLoop(w) ==
    /\ workers[w].pc = "loop"
    /\ workers' = [workers EXCEPT ![w].pc =
                      IF stop_thread THEN "exit"
                      ELSE IF frame_queue # <<>> THEN "get" ELSE "loop"]
    /\ UNCHANGED <<frame_queue, result_queue, stop_thread, prod, nextFrame, joinPc>>
    /\ UNCHANGED <<now, attached, sorterVars, conveyorVars, systemVars, cameraVars>>

\* frame = self.frame_queue.get(), preprocessing, and entry into the device
WorkerGet(w) ==
    /\ workers[w].pc = "get"
    /\ frame_queue # <<>>
    /\ workers' = [workers EXCEPT ![w].pc = "infer", ![w].frame = Head(frame_queue)]
    /\ frame_queue' = Tail(frame_queue)
    /\ UNCHANGED <<result_queue, stop_thread, prod, nextFrame, joinPc>>
    /\ UNCHANGED <<now, attached, sorterVars, conveyorVars, systemVars, cameraVars>>

\* write_and_read returns; postprocessing, class mapping, result_queue.put;
\* nothing in _inference_thread catches the ValueError of _hailo_postprocess
WorkerPublish(w) ==
    /\ workers[w].pc = "infer"
    /\ \E raw_outputs \in DeviceOutputs(workers[w].frame) :
          LET post == hailo_postprocess(raw_outputs) IN
          IF post.ok
          THEN /\ result_queue' = result_queue_put(result_queue,
                                     [frame |-> workers[w].frame,
                                      classes |-> map_classes(post.detections)])
               /\ workers' = [workers EXCEPT ![w].pc = "loop", ![w].frame = 0]
          ELSE /\ workers' = [workers EXCEPT ![w].pc = "dead", ![w].exc = "ValueError"]
               /\ UNCHANGED result_queue
    /\ UNCHANGED <<frame_queue, stop_thread, prod, nextFrame, joinPc>>
    /\ UNCHANGED <<now, attached, sorterVars, conveyorVars, systemVars, cameraVars>>

\* write_and_read raises: nothing in _inference_thread catches it
WorkerInferError(w) ==
    /\ workers[w].pc = "infer"
    /\ workers' = [workers EXCEPT ![w].pc = "dead", ![w].frame = 0,
                                  ![w].exc = "HailoRTException"]
    /\ UNCHANGED <<frame_queue, result_queue, stop_thread, prod, nextFrame, joinPc>>
    /\ UNCHANGED <<now, attached, sorterVars, conveyorVars, systemVars, cameraVars>>

(***************************************************************************)
(* Sorter                                                                   *)
(***************************************************************************)
ClassAngle(c) == IF c = "bolt" THEN bolt_angle ELSE nut_angle

\* calculate_travel_time returning 0 where it should raise
travel_time_no_raise(att, s) ==
    IF att /\ s > 0
    THEN [ok |-> TRUE, t |-> (distance_to_flapper * 10) \div s]
    ELSE [ok |-> TRUE, t |-> 0]

\* calculate_travel_time dividing by max_speed, not by the speed read
travel_time_at_max(att, s) ==
    IF att /\ s > 0
    THEN [ok |-> TRUE, t |-> (distance_to_flapper * 10) \div max_speed]
    ELSE [ok |-> FALSE, t |-> 0]

\* calculate_travel_time: ok = FALSE stands for the ValueError
calculate_travel_time(att, s) ==
    IF att /\ s > 0
    THEN [ok |-> TRUE, t |-> (distance_to_flapper * 10) \div s]
    ELSE [ok |-> FALSE, t |-> 0]

\* Timer(travel_time, actuate_flapper, args=(c,)).start()
NewTimer(c, travel) ==
    [cls |-> c, at |-> now, spd |-> speed, deadline |-> now + travel,
     st |-> "pending", due |-> now + travel,
     movedAt |-> -1, returnedAt |-> -1, returns |-> 0, shutInHold |-> FALSE]

RECURSIVE StartTimers(_, _)
StartTimers(cs, travel) ==
    IF cs = <<>> THEN <<>>
    ELSE <<NewTimer(Head(cs), travel)>> \o StartTimers(Tail(cs), travel)

handle_detection(detected_classes) ==
    LET tt == calculate_travel_time(attached, speed) IN
    IF tt.ok
    THEN /\ acts' = acts \o StartTimers(detected_classes, tt.t)
         /\ UNCHANGED <<nErrors, angle>>
    ELSE /\ nErrors' = nErrors + 1
         /\ UNCHANGED <<acts, angle>>

\* the return Timer started with no delay
ReturnTimerNoHold(t) == t

\* the return Timer counted from the firing, not from the end of the move
ReturnTimerFromFire(t) == t + HoldTicks - ServoSettleTicks

\* deadline of the Timer that returns the servo, started at time t
ReturnTimerDeadline(t) == t + HoldTicks

\* servo.ChangeDutyCycle: the command reaches the (possibly released) servo
Command(a) ==
    /\ angle' = a
    /\ afterRelease' = IF released > 0 THEN afterRelease + 1 ELSE afterRelease

Due(i) == acts[i].st \in {"pending", "moving", "holding", "returning"}
          /\ acts[i].due <= now

\* actuate_flapper moving the servo for every object type
SortableAny(c) == TRUE

\* actuate_flapper: object_type == "bolt", elif object_type == "nut"; else it
\* prints "Unknown object type detected. Skipping sorting." and returns
Sortable(c) == c \in {"bolt", "nut"}

\* the actuation Timer expires: actuate_flapper up to the sleep in move_to_angle
ActuateFire(i) ==
    /\ acts[i].st = "pending"
    /\ Due(i)
    /\ IF Sortable(acts[i].cls)
       THEN /\ Command(ClassAngle(acts[i].cls))
            /\ acts' = [acts EXCEPT ![i].st = "moving",
                                    ![i].movedAt = now,
                                    ![i].due = now + ServoSettleTicks]
       ELSE /\ acts' = [acts EXCEPT ![i].st = "skipped"]
            /\ UNCHANGED <<angle, afterRelease>>
    /\ UNCHANGED <<now, nErrors, cleanupPc, cleanupDue, released, attached>>
    /\ UNCHANGED <<conveyorVars, detectorVars, systemVars, cameraVars>>

\* move_to_angle returns in actuate_flapper and the return Timer is started
ActuateHold(i) ==
    /\ acts[i].st = "moving"
    /\ Due(i)
    /\ acts' = [acts EXCEPT ![i].st = "holding",
                            ![i].due = ReturnTimerDeadline(now)]
    /\ UNCHANGED <<now, angle, afterRelease, nErrors, cleanupPc, cleanupDue,
                   released, attached>>
    /\ UNCHANGED <<conveyorVars, detectorVars, systemVars, cameraVars>>

\* the return Timer expires: move_to_angle(default_angle) up to its sleep
ReturnFire(i) ==
    /\ acts[i].st = "holding"
    /\ Due(i)
    /\ Command(default_angle)
    /\ acts' = [acts EXCEPT ![i].st = "returning",
                            ![i].returnedAt = now,
                            ![i].returns = acts[i].returns + 1,
                            ![i].due = now + ServoSettleTicks]
    /\ UNCHANGED <<now, nErrors, cleanupPc, cleanupDue, released, attached>>
    /\ UNCHANGED <<conveyorVars, detectorVars, systemVars, cameraVars>>

\* the return Timer's move_to_angle ends
ReturnDone(i) ==
    /\ acts[i].st = "returning"
    /\ Due(i)
    /\ acts' = [acts EXCEPT ![i].st = "done"]
    /\ UNCHANGED <<now, angle, afterRelease, nErrors, cleanupPc, cleanupDue,
                   released, attached>>
    /\ UNCHANGED <<conveyorVars, detectorVars, systemVars, cameraVars>>

\* Sorter.cleanup: move_to_angle(default_angle) up to its sleep
cleanup_begin == Command(default_angle)

\* Sorter.cleanup: servo.stop(); GPIO.cleanup()
cleanup_end == released' = released + 1

\* the finally block of sorter.py's program calls cleanup, once: within the
\* first MaxCleanupTime ticks, or when every Timer has run to its end
\* (shutInHold records which firings were holding their class angle then)
CleanupBegin ==
    /\ cleanupPc = "idle"
    /\ \/ now <= MaxCleanupTime
       \/ \A i \in 1..Len(acts) : acts[i].st \in {"done", "skipped"}
    /\ cleanup_begin
    /\ cleanupPc' = "moving"
    /\ cleanupDue' = now + ServoSettleTicks
    /\ acts' = [i \in 1..Len(acts) |->
                  [acts[i] EXCEPT !.shutInHold = (acts[i].st = "holding")]]
    /\ UNCHANGED <<now, nErrors, released, attached>>
    /\ UNCHANGED <<conveyorVars, detectorVars, systemVars, cameraVars>>

CleanupEnd ==
    /\ cleanupPc = "moving"
    /\ cleanupDue <= now
    /\ cleanup_end
    /\ cleanupPc' = "done"
    /\ cleanupDue' = 0
    /\ UNCHANGED <<now, angle, afterRelease, acts, nErrors, attached>>
    /\ UNCHANGED <<conveyorVars, detectorVars, systemVars, cameraVars>>

(***************************************************************************)
(* CameraCapture and SortingSystem (main.py)                                *)
(***************************************************************************)
\* what detector.detect(frame) returns to detect_and_sort
DetectOutputs == {<<>>, <<"bolt">>, <<"nut", "unknown">>}


\* CameraCapture.cleanup
camera_cleanup ==
    IF cap = "open"
    THEN cap' = "none" /\ camReleases' = camReleases + 1
    ELSE UNCHANGED <<cap, camReleases>>

\* __main__: system.initialize_system(), the camera opens
MainInitialize ==
    /\ pc["main"] = "boot"
    /\ set_speed(InitialSpeed)
    /\ cap' = "open"
    /\ Goto("main", "start")
    /\ UNCHANGED <<now, attached, sorterVars, motionVars, detectorVars>>
    /\ UNCHANGED <<sys_running, detected_objects_queue, wake, exc, ret, nHanded>>
    /\ UNCHANGED <<cam_running, camReleases, nCaptures>>

\* __main__: initialize_camera raises (it has called cleanup); except Exception
MainInitializeFails ==
    /\ pc["main"] = "boot"
    /\ set_speed(InitialSpeed)
    /\ camera_cleanup
    /\ Goto("main", "outer_finally")
    /\ UNCHANGED <<now, attached, sorterVars, motionVars, detectorVars>>
    /\ UNCHANGED <<sys_running, detected_objects_queue, wake, exc, ret, nHanded>>
    /\ UNCHANGED <<cam_running, nCaptures>>

\* start_sorting up to its loop: running = True and the two threads start
MainStartSorting ==
    /\ pc["main"] = "start"
    /\ sys_running' = TRUE
    /\ pc' = [pc EXCEPT !["main"] = "loop", !["conveyor"] = "run", !["camera"] = "run"]
    /\ UNCHANGED <<now, attached, sorterVars, conveyorVars, detectorVars, cameraVars>>
    /\ UNCHANGED <<detected_objects_queue, wake, exc, ret, nHanded>>

\* while self.running:
MainLoop ==
    /\ pc["main"] = "loop"
    /\ IF sys_running
       THEN /\ Goto("main", "sort")
            /\ UNCHANGED ret
       ELSE /\ Goto("main", "ss_running")
            /\ ret' = [ret EXCEPT !["main"] = "inner"]
    /\ UNCHANGED <<now, attached, sorterVars, conveyorVars, detectorVars, cameraVars>>
    /\ UNCHANGED <<sys_running, detected_objects_queue, wake, exc, nHanded>>

\* sort_objects: one turn of its loop; a ValueError leaves start_sorting
\* through its finally block
MainSort ==
    /\ pc["main"] = "sort"
    /\ IF detected_objects_queue = <<>>
       THEN /\ Goto("main", "sleep")
            /\ UNCHANGED <<detected_objects_queue, nHanded, acts, nErrors, angle, exc, ret>>
       ELSE /\ detected_objects_queue' = Tail(detected_objects_queue)
            /\ nHanded' = nHanded + 1
            /\ handle_detection(<<Head(detected_objects_queue)>>)
            /\ IF calculate_travel_time(attached, speed).ok
               THEN UNCHANGED <<pc, exc, ret>>
               ELSE /\ Goto("main", "ss_running")
                    /\ exc' = [exc EXCEPT !["main"] = "ValueError"]
                    /\ ret' = [ret EXCEPT !["main"] = "inner"]
    /\ UNCHANGED <<now, attached, conveyorVars, detectorVars, cameraVars>>
    /\ UNCHANGED <<cleanupPc, cleanupDue, released, afterRelease, sys_running, wake>>

\* time.sleep(1) ends
MainSleep ==
    /\ pc["main"] = "sleep"
    /\ Goto("main", "loop")
    /\ UNCHANGED <<now, attached, sorterVars, conveyorVars, detectorVars, cameraVars>>
    /\ UNCHANGED <<sys_running, detected_objects_queue, wake, exc, ret, nHanded>>

\* Ctrl+C inside the try block of start_sorting: except KeyboardInterrupt, finally
MainInterrupt ==
    /\ pc["main"] \in {"loop", "sort", "sleep"}
    /\ Goto("main", "ss_running")
    /\ exc' = [exc EXCEPT !["main"] = "KeyboardInterrupt"]
    /\ ret' = [ret EXCEPT !["main"] = "inner"]
    /\ UNCHANGED <<now, attached, sorterVars, conveyorVars, detectorVars, cameraVars>>
    /\ UNCHANGED <<sys_running, detected_objects_queue, wake, nHanded>>

\* stop_sorting: self.running = False
StopSortingRunning(t) ==
    /\ ProcessAlive
    /\ pc[t] = "ss_running"
    /\ sys_running' = FALSE
    /\ Goto(t, "ss_conveyor")
    /\ UNCHANGED <<now, attached, sorterVars, conveyorVars, detectorVars, cameraVars>>
    /\ UNCHANGED <<detected_objects_queue, wake, exc, ret, nHanded>>

\* stop_sorting: self.conveyor.stop()
StopSortingConveyor(t) ==
    /\ ProcessAlive
    /\ pc[t] = "ss_conveyor"
    /\ stop
    /\ Goto(t, "ss_camera")
    /\ UNCHANGED <<now, attached, sorterVars, speedVars, direction, step_pin, steppers, adj>>
    /\ UNCHANGED <<detectorVars, cameraVars>>
    /\ UNCHANGED <<sys_running, detected_objects_queue, wake, exc, ret, nHanded>>

\* stop_sorting: self.camera.cleanup()
StopSortingCamera(t) ==
    /\ ProcessAlive
    /\ pc[t] = "ss_camera"
    /\ camera_cleanup
    /\ Goto(t, "ss_sorter")
    /\ UNCHANGED <<now, attached, sorterVars, conveyorVars, detectorVars>>
    /\ UNCHANGED <<cam_running, nCaptures>>
    /\ UNCHANGED <<sys_running, detected_objects_queue, wake, exc, ret, nHanded>>

\* stop_sorting: self.camera.cleanup() raises after the release (cv2.error from
\* destroyAllWindows); stop_sorting has no try, so the exception leaves it:
\* to the except and finally clauses of __main__ when start_sorting's finally
\* made the call, and out of the thread otherwise
StopSortingCameraFails(t) ==
    /\ ProcessAlive
    /\ pc[t] = "ss_camera"
    /\ camera_cleanup
    /\ exc' = [exc EXCEPT ![t] = "cv2.error"]
    /\ Goto(t, IF ret[t] = "inner" THEN "outer_finally" ELSE "dead")
    /\ ret' = [ret EXCEPT ![t] = "none"]
    /\ UNCHANGED <<now, attached, sorterVars, conveyorVars, detectorVars>>
    /\ UNCHANGED <<cam_running, nCaptures>>
    /\ UNCHANGED <<sys_running, detected_objects_queue, wake, nHanded>>

\* stop_sorting: self.sorter.cleanup() up to the sleep of move_to_angle
StopSortingSorter(t) ==
    /\ ProcessAlive
    /\ pc[t] = "ss_sorter"
    /\ cleanup_begin
    /\ Goto(t, "ss_sorter_sleep")
    /\ wake' = [wake EXCEPT ![t] = now + ServoSettleTicks]
    /\ UNCHANGED <<now, attached, acts, nErrors, cleanupPc, cleanupDue, released>>
    /\ UNCHANGED <<conveyorVars, detectorVars, cameraVars>>
    /\ UNCHANGED <<sys_running, detected_objects_queue, exc, ret, nHanded>>

\* stop_sorting: the rest of self.sorter.cleanup(), and the return
StopSortingReturn(t) ==
    /\ ProcessAlive
    /\ pc[t] = "ss_sorter_sleep"
    /\ wake[t] <= now
    /\ cleanup_end
    /\ wake' = [wake EXCEPT ![t] = 0]
    /\ Goto(t, IF ret[t] = "inner" THEN "outer_finally" ELSE "exit")
    /\ ret' = [ret EXCEPT ![t] = "none"]
    /\ UNCHANGED <<now, attached, angle, afterRelease, acts, nErrors, cleanupPc, cleanupDue>>
    /\ UNCHANGED <<conveyorVars, detectorVars, cameraVars>>
    /\ UNCHANGED <<sys_running, detected_objects_queue, exc, nHanded>>

\* __main__: (except Exception: print) finally: system.stop_sorting()
MainOuterFinally ==
    /\ pc["main"] = "outer_finally"
    /\ Goto("main", "ss_running")
    /\ ret' = [ret EXCEPT !["main"] = "outer"]
    /\ UNCHANGED <<now, attached, sorterVars, conveyorVars, detectorVars, cameraVars>>
    /\ UNCHANGED <<sys_running, detected_objects_queue, wake, exc, nHanded>>

\* conveyor_thread_func: self.conveyor.start() returns
ConveyorThreadStart ==
    /\ ProcessAlive
    /\ pc["conveyor"] = "run"
    /\ Len(steppers) < MaxSteppers
    /\ IF ~conv_running
       THEN /\ \/ \E new_speed \in SpeedInputs : set_speed(new_speed)
               \/ UNCHANGED speedVars
            /\ conv_running' = TRUE
            /\ steppers' = Append(steppers, "check")
       ELSE UNCHANGED <<speedVars, conv_running, steppers>>
    /\ Goto("conveyor", "exit")
    /\ UNCHANGED <<now, attached, sorterVars, direction, step_pin, adj>>
    /\ UNCHANGED <<detectorVars, cameraVars>>
    /\ UNCHANGED <<sys_running, detected_objects_queue, wake, exc, ret, nHanded>>

\* conveyor_thread_func: input() raises (EOFError); except Exception: stop_sorting
ConveyorThreadFails ==
    /\ ProcessAlive
    /\ pc["conveyor"] = "run"
    /\ ~conv_running
    /\ Goto("conveyor", "ss_running")
    /\ exc' = [exc EXCEPT !["conveyor"] = "EOFError"]
    /\ ret' = [ret EXCEPT !["conveyor"] = "thread"]
    /\ UNCHANGED <<now, attached, sorterVars, conveyorVars, detectorVars, cameraVars>>
    /\ UNCHANGED <<sys_running, detected_objects_queue, wake, nHanded>>

\* camera_thread_func: capture_and_detect starts the capture thread, or raises
\* because cap is None and stop_sorting is called
CameraThreadRun ==
    /\ ProcessAlive
    /\ pc["camera"] = "run"
    /\ IF cap = "open"
       THEN /\ cam_running' = TRUE
            /\ pc' = [pc EXCEPT !["camera"] = "exit", !["capture"] = "loop"]
            /\ UNCHANGED <<exc, ret>>
       ELSE /\ Goto("camera", "ss_running")
            /\ exc' = [exc EXCEPT !["camera"] = "Exception"]
            /\ ret' = [ret EXCEPT !["camera"] = "thread"]
            /\ UNCHANGED cam_running
    /\ UNCHANGED <<now, attached, sorterVars, conveyorVars, detectorVars>>
    /\ UNCHANGED <<cap, camReleases, nCaptures>>
    /\ UNCHANGED <<sys_running, detected_objects_queue, wake, nHanded>>

\* a failed read ending _capture_frames (break, not continue)
on_failed_read_break == "exit"

\* if not ret: print("Failed to capture frame. Retrying..."); continue
on_failed_read == "failed"

\* _capture_frames: while self.running, reached at the start, at the end of
\* the loop body and by the continue after a failed read
CaptureLoop ==
    /\ ProcessAlive
    /\ pc["capture"] \in {"loop", "failed"}
    /\ Goto("capture", IF cam_running THEN "read" ELSE "exit")
    /\ UNCHANGED <<now, attached, sorterVars, conveyorVars, detectorVars, cameraVars>>
    /\ UNCHANGED <<sys_running, detected_objects_queue, wake, exc, ret, nHanded>>

\* _capture_frames: ret, frame = self.cap.read(); on self.cap = None the
\* AttributeError ends the thread
CaptureRead ==
    /\ ProcessAlive
    /\ pc["capture"] = "read"
    /\ nCaptures < MaxCaptures
    /\ IF cap = "open"
       THEN /\ nCaptures' = nCaptures + 1
            /\ \/ Goto("capture", "callback")
               \/ Goto("capture", on_failed_read)   \* ret is False
            /\ UNCHANGED exc
       ELSE /\ Goto("capture", "dead")
            /\ exc' = [exc EXCEPT !["capture"] = "AttributeError"]
            /\ UNCHANGED nCaptures
    /\ UNCHANGED <<now, attached, sorterVars, conveyorVars, detectorVars>>
    /\ UNCHANGED <<cap, cam_running, camReleases>>
    /\ UNCHANGED <<sys_running, detected_objects_queue, wake, ret, nHanded>>

RECURSIVE PutAll(_, _)
PutAll(q, objs) == IF objs = <<>> THEN q ELSE PutAll(Append(q, Head(objs)), Tail(objs))

\* detect_and_sort(frame), then imshow, waitKey and the sleep of 1 / fps
CaptureCallback ==
    /\ ProcessAlive
    /\ pc["capture"] = "callback"
    /\ \E detected_objects \in DetectOutputs :
          detected_objects_queue' = PutAll(detected_objects_queue, detected_objects)
    /\ \/ Goto("capture", "loop")
       \/ Goto("capture", "exit")               \* 'q' pressed: break
    /\ UNCHANGED <<now, attached, sorterVars, conveyorVars, detectorVars, cameraVars>>
    /\ UNCHANGED <<sys_running, wake, exc, ret, nHanded>>

(***************************************************************************)
(* Calls from the sorter's clients                                          *)
(***************************************************************************)
HandleDetection ==
    /\ now <= MaxCallTime
    /\ nErrors < MaxErrors
    /\ \E cs \in ClassLists :
          /\ Len(acts) + Len(cs) <= MaxActs
          /\ handle_detection(cs)
    /\ UNCHANGED <<now, afterRelease, cleanupPc, cleanupDue, released, attached>>
    /\ UNCHANGED <<conveyorVars, detectorVars, systemVars, cameraVars>>

\* a client's conveyor.set_speed(v), v drawn from S
SetSpeedFrom(S) ==
    /\ now <= MaxCallTime
    /\ \E v \in S : set_speed(v)
    /\ UNCHANGED <<now, attached, motionVars>>
    /\ UNCHANGED <<sorterVars, detectorVars, systemVars, cameraVars>>

\* rejected calls leave the speed alone: the sorter sees only accepted ones
SorterSetSpeed == SetSpeedFrom(PositiveSpeedInputs)

SetSpeed == SetSpeedFrom(SpeedInputs)

\* set_speed(float("nan")): from a client, or from start() when "nan" is
\* typed at its prompt while the belt is stopped
SetSpeedNaN == SetSpeedFrom({NaN})

(***************************************************************************)
(* Time                                                                     *)
(***************************************************************************)
SomethingDue ==
    \/ \E i \in 1..Len(acts) : Due(i)
    \/ cleanupPc = "moving" /\ cleanupDue <= now
    \/ \E t \in Threads : pc[t] = "ss_sorter_sleep" /\ wake[t] <= now

\* a Timer or a sleep is running, or a client may still call
TimeAwaited ==
    \/ \E i \in 1..Len(acts) : acts[i].st \in {"pending", "moving", "holding", "returning"}
    \/ cleanupPc = "moving"
    \/ \E t \in Threads : pc[t] = "ss_sorter_sleep"
    \/ now < MaxCallTime

Tick ==
    /\ TimeAwaited
    /\ ~SomethingDue
    /\ now' = now + 1
    /\ UNCHANGED <<attached, sorterVars>>
    /\ UNCHANGED <<conveyorVars, detectorVars, systemVars, cameraVars>>

(***************************************************************************)
(* Specifications                                                           *)
(***************************************************************************)
Init ==
    /\ now = 0
    /\ speed = InitialSpeed
    /\ pulse_interval = PulseInterval(InitialSpeed)
    /\ conv_running = FALSE
    /\ direction = "HIGH"
    /\ step_pin = "LOW"
    /\ steppers = <<>>
    /\ adj = [t \in Adjusters |-> [pc |-> "idle", new_speed |-> 0]]
    /\ lastArg = <<>>
    /\ attached \in BOOLEAN
    /\ angle = default_angle
    /\ acts = <<>>
    /\ nErrors = 0
    /\ cleanupPc = "idle"
    /\ cleanupDue = 0
    /\ released = 0
    /\ afterRelease = 0
    /\ frame_queue = <<>>
    /\ result_queue = <<>>
    /\ stop_thread = FALSE
    /\ workers = <<>>
    /\ prod = [p \in Producers |-> [pc |-> "idle", frame |-> 0, got |-> 0]]
    /\ nextFrame = 0
    /\ joinPc = "idle"
    /\ sys_running = FALSE
    /\ detected_objects_queue = <<>>
    /\ pc = [t \in Threads |-> IF t = "main" THEN "boot" ELSE "unborn"]
    /\ wake = [t \in Threads |-> 0]
    /\ exc = [t \in Threads |-> "none"]
    /\ ret = [t \in Threads |-> "none"]
    /\ cap = "none"
    /\ cam_running = FALSE
    /\ camReleases = 0
    /\ nCaptures = 0
    /\ nHanded = 0

SorterNext ==
    \/ HandleDetection
    \/ SorterSetSpeed
    \/ \E i \in 1..Len(acts) : ActuateFire(i)
    \/ \E i \in 1..Len(acts) : ActuateHold(i)
    \/ \E i \in 1..Len(acts) : ReturnFire(i)
    \/ \E i \in 1..Len(acts) : ReturnDone(i)
    \/ CleanupBegin
    \/ CleanupEnd
    \/ Tick

SpecSorter == Init /\ [][SorterNext]_vars

ConveyorNext ==
    \/ SetSpeed
    \/ \E t \in Adjusters : AdjustRead(t)
    \/ \E t \in Adjusters : AdjustWrite(t)
    \/ Start
    \/ Stop
    \/ \E i \in 1..Len(steppers) : StepperCheck(i)
    \/ \E i \in 1..Len(steppers) : StepperLow(i)
    \/ \E i \in 1..Len(steppers) : StepperWake(i)
    \/ ChangeDirection

SystemNext ==
    \/ MainInitialize
    \/ MainInitializeFails
    \/ MainStartSorting
    \/ MainLoop
    \/ MainSort
    \/ MainSleep
    \/ MainInterrupt
    \/ MainOuterFinally
    \/ \E t \in Threads : StopSortingRunning(t)
    \/ \E t \in Threads : StopSortingConveyor(t)
    \/ \E t \in Threads : StopSortingCamera(t)
    \/ \E t \in Threads : StopSortingCameraFails(t)
    \/ \E t \in Threads : StopSortingSorter(t)
    \/ \E t \in Threads : StopSortingReturn(t)
    \/ ConveyorThreadStart
    \/ ConveyorThreadFails
    \/ CameraThreadRun
    \/ CaptureLoop
    \/ CaptureRead
    \/ CaptureCallback
    \/ \E i \in 1..Len(steppers) : StepperCheck(i)
    \/ \E i \in 1..Len(steppers) : StepperLow(i)
    \/ \E i \in 1..Len(steppers) : StepperWake(i)
    \/ Tick

\* main.py: Sorter(servo_pin=18, bolt_angle=90, nut_angle=0, default_angle=45)
\* is built without a conveyor
SystemInit == Init /\ attached = FALSE

SpecSystem == SystemInit /\ [][SystemNext]_vars

DetectorNext ==
    \/ \E p \in Producers : DetectCall(p)
    \/ \E p \in Producers : DetectPut(p)
    \/ \E p \in Producers : DetectTest(p)
    \/ \E p \in Producers : DetectGet(p)
    \/ StartInference
    \/ StopInference
    \/ StopInferenceJoined
    \/ \E w \in 1..Len(workers) : WorkerLoop(w)
    \/ \E w \in 1..Len(workers) : WorkerGet(w)
    \/ \E w \in 1..Len(workers) : WorkerPublish(w)
    \/ \E w \in 1..Len(workers) : WorkerInferError(w)

\* a HailoObjectDetector on its own (detector.py run as a program)
DetectorInit == Init /\ attached = FALSE

SpecDetector == DetectorInit /\ [][DetectorNext]_vars

\* the same, with a client that calls start_inference more than once
DetectorRestartNext ==
    \/ DetectorNext
    \/ StartInferenceAgain

SpecDetectorRestart == DetectorInit /\ [][DetectorRestartNext]_vars

\* a ConveyorBelt on its own (conveyor.py run as a program)
ConveyorInit == Init /\ attached = FALSE

SpecConveyor == ConveyorInit /\ [][ConveyorNext]_vars

\* the same, with a speed argument that is not a number
ConveyorNaNNext ==
    \/ ConveyorNext
    \/ SetSpeedNaN

SpecConveyorNaN == ConveyorInit /\ [][ConveyorNaNNext]_vars


(***************************************************************************)
(* Claims                                                                   *)
(***************************************************************************)
Firing(i) == acts[i].st \in {"moving", "holding", "returning"}
ActIds == 1..Len(acts)

\* C1: firings are serialized: no two firings (move, hold, return) are in
\* progress at once, and while a firing moves to its class angle or holds
\* there the servo stays at that firing's class angle.
C1_FiringsSerialized ==
    cleanupPc = "idle" =>
        /\ \A i, j \in ActIds : (i # j) => ~(Firing(i) /\ Firing(j))
        /\ \A i \in ActIds :
              acts[i].st \in {"moving", "holding"}
                  => angle = ClassAngle(acts[i].cls)

\* C2: without a shutdown, a bolt or nut firing commands the servo back to
\* default_angle exactly once: not before hold_time has passed since the
\* move to the class angle, not twice, and not never.
C2_ReturnOnceAfterHold ==
    cleanupPc = "idle" =>
        \A i \in ActIds :
            LET a == acts[i] IN
            /\ a.returns <= 1
            /\ a.st \in {"moving", "holding"} => a.returns = 0
            /\ a.st \in {"returning", "done"} =>
                  /\ a.cls \in {"bolt", "nut"}
                  /\ a.returns = 1
                  /\ a.returnedAt >= a.movedAt + HoldTicks
            /\ (a.st \in {"moving", "holding"}
                  /\ now > a.movedAt + ServoSettleTicks + HoldTicks) => FALSE

C2_Witness ==
    /\ cleanupPc = "idle"
    /\ \E i \in ActIds : acts[i].st = "done" /\ acts[i].returns = 1

\* C3: handle_detection called with no conveyor attached or with a speed
\* that is not positive raises ValueError, starts no Timer and leaves the
\* servo angle as it was.
C3_InvalidSpeedSchedulesNothing ==
    [][(HandleDetection /\ ~(attached /\ speed > 0))
          => (nErrors' = nErrors + 1 /\ acts' = acts /\ angle' = angle)]_vars

C3_Witness == ~attached /\ nErrors > 0 /\ acts = <<>> /\ angle = default_angle

\* C4: a ValueError raised by handle_detection inside sort_objects does not
\* stop the system: with no other thread asking for shutdown, running stays
\* true and the servo is not released.
C4_InvalidSpeedNotFatal ==
    (/\ nErrors > 0
     /\ exc["main"] = "ValueError"
     /\ exc["conveyor"] = "none"
     /\ exc["camera"] = "none") => (sys_running /\ released = 0)

\* C5: the deadline of an actuation is the time of the handle_detection call
\* plus distance_to_flapper / (the speed read in that call); later set_speed
\* calls do not move it, the actuation fires at it, and a later call uses the
\* speed stored then.
C5_DeadlineFixedAtSchedule ==
    /\ [](\A i \in ActIds :
            /\ acts[i].deadline
                  = acts[i].at + (distance_to_flapper * 10) \div acts[i].spd
            /\ acts[i].st = "pending" => acts[i].due = acts[i].deadline
            /\ acts[i].st \in {"moving", "holding", "returning", "done"}
                  => acts[i].movedAt = acts[i].deadline)
    /\ [][/\ Len(acts') >= Len(acts)
          /\ \A i \in ActIds :
                /\ acts'[i].deadline = acts[i].deadline
                /\ acts'[i].at = acts[i].at
                /\ acts'[i].spd = acts[i].spd
          /\ \A i \in (1..Len(acts')) \ ActIds :
                acts'[i].at = now /\ acts'[i].spd = speed]_vars

\* an actuation scheduled at one speed has fired, and a later one was
\* scheduled at another speed
C5_Witness ==
    \E i, j \in ActIds :
        /\ i < j
        /\ acts[i].spd # acts[j].spd
        /\ acts[i].at < acts[j].at
        /\ acts[i].st = "done"
        /\ acts[j].st = "done"

\* C6: frame_queue never holds more frames than its maxsize.
C6_FrameQueueBounded == Len(frame_queue) <= FrameQueueMaxsize

\* the queue is full and a caller of detect_objects waits in put
C6_Witness ==
    /\ Len(frame_queue) = FrameQueueMaxsize
    /\ \E p \in Producers : prod[p].pc = "put"

\* C7: a caller of detect_objects is never blocked in frame_queue.put: with
\* the queue full the call goes on without waiting for the worker.
C7_ProducerNeverBlocked ==
    \A p \in Producers : prod[p].pc = "put" => ENABLED DetectPut(p)

\* a step in which set_speed(v) is called: by a client, by adjust_speed or
\* by start
SetSpeedCall(v) ==
    /\ lastArg' = <<v>>
    /\ SetSpeed \/ Start \/ \E t \in Adjusters : AdjustWrite(t)

\* C8: set_speed(v) with v <= 0 leaves the speed and the pulse interval as
\* they were.
C8_NonPositiveSpeedRejected ==
    [][(/\ lastArg' # <<>>
        /\ ~IsNaN(lastArg'[1])
        /\ lastArg'[1] <= 0
        /\ SetSpeedCall(lastArg'[1]))
          => (speed' = speed /\ pulse_interval' = pulse_interval)]_vars

\* a speed was accepted, and a later set_speed(v) with v <= 0 left it
C8_Witness ==
    /\ lastArg # <<>>
    /\ lastArg[1] <= 0
    /\ speed = 20
    /\ pulse_interval = PulseInterval(20)

\* C9: set_speed(v) with v > 0 stores min(v, max_speed): max_speed for a v
\* above it, v itself otherwise.
C9_SpeedClamped ==
    [][(lastArg' # <<>> /\ lastArg'[1] > 0 /\ SetSpeedCall(lastArg'[1]))
          => /\ lastArg'[1] > max_speed => speed' = max_speed
             /\ lastArg'[1] <= max_speed => speed' = lastArg'[1]]_vars

\* set_speed(150) stored max_speed, after set_speed(20) had stored 20
C9_Witness ==
    /\ lastArg = <<150>>
    /\ speed = max_speed
    /\ \E t \in Adjusters : adj[t].pc = "set" /\ adj[t].new_speed = 45

\* C10: once Sorter.cleanup has completed, the servo is not commanded again
\* and its last commanded angle is default_angle.
C10_ShutdownCancelsPending ==
    cleanupPc = "done" => (afterRelease = 0 /\ angle = default_angle)


\* C11: whoever starts the shutdown, and however many threads do, the servo
\* (servo.stop and GPIO.cleanup in Sorter.cleanup) and the camera handle are
\* each released exactly once: never twice, and once the program has ended
\* not zero times.
C11_ReleasedExactlyOnce ==
    /\ released <= 1
    /\ camReleases <= 1
    /\ pc["main"] = "exit" => released = 1
    /\ (pc["main"] = "exit" /\ pc["camera"] # "unborn") => camReleases = 1

\* C12: when Sorter.cleanup is called while a firing holds its class angle,
\* cleanup's move to default_angle is the only one for that firing: the
\* firing's own return Timer does not command the servo as well.
C12_ShutdownInHoldReturnsOnce ==
    \A i \in ActIds : acts[i].shutInHold => acts[i].returns = 0

\* C13: a failure of camera.cleanup() inside stop_sorting does not keep the
\* sorter from being cleaned up: when the main thread has ended on that
\* failure, the servo has been returned to default and released.
C13_CleanupIsolated ==
    (pc["main"] = "dead" /\ exc["main"] = "cv2.error") => released >= 1

\* C14: at most one _inference_thread is inside the device call
\* (write_and_read) at any time, whatever the sequence of start_inference,
\* stop_inference and detect_objects calls.
C14_OneInferenceAtATime ==
    Cardinality({w \in 1..Len(workers) : workers[w].pc = "infer"}) <= 1

\* C15: an inference failure (write_and_read raises) does not end the worker:
\* no _inference_thread is ever dead, it goes back to its loop.
C15_InferErrorRecovered ==
    \A w \in 1..Len(workers) :
        ~(workers[w].pc = "dead" /\ workers[w].exc = "HailoRTException")

\* the frames whose results detect_objects has returned last, then those of
\* the results waiting in result_queue, oldest first
ResultFrames(p) ==
    <<prod[p].got>> \o [i \in 1..Len(result_queue) |-> result_queue[i].frame]

C17_StopKeepsSpeed ==
    /\ [][Stop => /\ ~conv_running'
                  /\ speed' = speed
                  /\ pulse_interval' = pulse_interval
                  /\ direction' = direction]_vars
    /\ [][\A i \in 1..Len(steppers) :
            (steppers[i] = "check" /\ ~conv_running /\ steppers'[i] # "check")
                => (steppers'[i] = "exit" /\ step_pin' = step_pin)]_vars
    /\ [][(/\ Start
           /\ ~conv_running
           /\ \/ lastArg' = lastArg
              \/ ~IsNaN(lastArg'[1]) /\ lastArg'[1] <= 0)
              => (conv_running' /\ speed' = speed /\ pulse_interval' = pulse_interval)]_vars

\* the belt was started, stopped and started again; the speed is the 0.2 m/s
\* stored earlier although the last call of set_speed was given 0
C17_Witness ==
    /\ Len(steppers) = 2
    /\ steppers[1] = "exit"
    /\ conv_running
    /\ speed = 20
    /\ lastArg = <<0>>

\* the firings of a bolt or a nut detected while the belt ran at 0.2 m/s
At02 == {i \in ActIds : acts[i].spd = 20 /\ acts[i].cls \in {"bolt", "nut"}}

\* C18 as stated: at 0.2 m/s the travel time is 2.5 s, the servo leaves
\* default 2.5 s after the detection and the command that returns it to
\* default is issued 5.5 s after the detection.
C18_ReturnAt55 ==
    \A i \in At02 :
        /\ acts[i].deadline = acts[i].at + 25
        /\ acts[i].movedAt # -1 => acts[i].movedAt = acts[i].at + 25
        /\ acts[i].returns > 0 => acts[i].returnedAt = acts[i].at + 55

\* C18, amended: the travel time is 2.5 s and the servo leaves default 2.5 s
\* after the detection, but the hold Timer is started when move_to_angle
\* returns, 0.5 s after the command, so the command that returns the servo to
\* default is issued 6.0 s after the detection, and not later.
C18_ReturnAt60 ==
    \A i \in At02 :
        /\ acts[i].deadline = acts[i].at + 25
        /\ acts[i].movedAt # -1 => acts[i].movedAt = acts[i].at + 25
        /\ acts[i].returns > 0 => acts[i].returnedAt = acts[i].at + 60
        /\ acts[i].st \in {"pending", "moving", "holding"} => now <= acts[i].at + 60

\* a bolt or nut detected at 0.2 m/s has been sorted and the servo is back
C18_Witness ==
    \E i \in At02 : acts[i].st = "done" /\ acts[i].returnedAt = acts[i].at + 60

\* C19: set_speed and adjust_speed calls that overlap take effect one at a
\* time: when an adjust_speed(step) commits, the stored speed changes by
\* exactly step from the value stored just before, so no update is lost and
\* none is computed from a stale speed.
C19_SpeedUpdatesLinearizable ==
    [][\A t \in Adjusters :
          (adj[t].pc = "set" /\ adj'[t].pc = "idle")
              => (speed' - speed) \in StepInputs]_vars

\* C20: no detected object is left unconsumed: when the main thread of
\* main.py has ended, every object that was put on detected_objects_queue
\* has been taken from it and handed to handle_detection.
C20_ConsumedExactlyOnce ==
    pc["main"] \in {"exit", "dead"} => detected_objects_queue = <<>>

\* the domain class the mapping table gives a raw class: bolt, screw_body and
\* screw_head are bolts, nut is a nut, anything else is unknown
ExpectedClass(class_id) ==
    IF class_id[1] = "str" /\ class_id[2] \in {"bolt", "screw_body", "screw_head"}
    THEN "bolt"
    ELSE IF class_id[1] = "str" /\ class_id[2] = "nut" THEN "nut"
    ELSE "unknown"

\* the classes to emit for one device output: those of the detections above
\* the confidence threshold
ExpectedClasses(raw) ==
    LET Keep(o) == o.confidence > conf_threshold
        kept == SelectSeq(raw, Keep)
    IN  [i \in 1..Len(kept) |-> ExpectedClass(kept[i].class_id)]

\* C21: when the device has answered for a frame, the worker emits the
\* detections of that frame with their raw classes collapsed by the mapping
\* table: "bolt" for bolt, screw_body and screw_head, "nut" for nut, and
\* "unknown" only for a raw class outside the table.
C21_RawClassesCollapsed ==
    [][\A w \in 1..Len(workers) :
          (/\ workers[w].pc = "infer"
           /\ workers'[w].pc # "infer"
           /\ workers'[w].exc # "HailoRTException")
              => \E raw \in DeviceOutputs(workers[w].frame) :
                    result_queue' = Append(result_queue,
                                       [frame |-> workers[w].frame,
                                        classes |-> ExpectedClasses(raw)])]_vars

\* every class the worker emits is "unknown": it never emits "bolt" or "nut"
WorkerEmitsOnlyUnknown ==
    \A i \in 1..Len(result_queue) :
        \A j \in 1..Len(result_queue[i].classes) :
            result_queue[i].classes[j] = "unknown"

\* C22: change_direction toggles the direction and leaves speed,
\* pulse_interval and the running flag as they were; a second
\* change_direction gives the direction back; no other operation
\* (set_speed, adjust_speed, start, stop, the pulse loop) changes the
\* direction.
C22_DirectionOrthogonal ==
    /\ [][ChangeDirection => /\ direction' # direction
                             /\ change_direction(direction') = direction
                             /\ speed' = speed
                             /\ pulse_interval' = pulse_interval
                             /\ conv_running' = conv_running]_vars
    /\ [][direction' # direction => ChangeDirection]_vars

\* the direction is reversed on a belt whose speed was set to 0.2 m/s and
\* that was started and stopped, its pulse loop still in a pulse
C22_Witness ==
    /\ direction = "LOW"
    /\ speed = 20
    /\ ~conv_running
    /\ Len(steppers) = 1
    /\ steppers[1] = "high"

\* C23: once stop_inference has set stop_thread, no _inference_thread waits
\* for a frame: none is inside frame_queue.get() with the queue empty, so
\* each one reaches its loop test, ends, and the join in stop_inference
\* returns.
C23_StopUnblocksWorker ==
    stop_thread =>
        \A w \in 1..Len(workers) :
            ~(workers[w].pc = "get" /\ frame_queue = <<>>)

\* C24: a read that fails (ret is False) does not end _capture_frames and
\* passes no frame to the detection callback: a read on the open camera
\* leads to the callback or to the retry, the retry leads to the loop test
\* and, the loop not being stopped, to the next read, and objects are queued
\* only by a step of the callback.
C24_FailedReadRetried ==
    /\ [][(pc["capture"] = "read" /\ cap = "open" /\ pc'["capture"] # "read")
             => pc'["capture"] \in {"callback", "failed"}]_vars
    /\ [][(pc["capture"] = "failed" /\ pc'["capture"] # "failed")
             => /\ cam_running => pc'["capture"] = "read"
                /\ detected_objects_queue' = detected_objects_queue]_vars
    /\ [][Len(detected_objects_queue') > Len(detected_objects_queue)
             => pc["capture"] = "callback"]_vars
    /\ [][pc'["capture"] = "failed"
             => Len(detected_objects_queue') <= Len(detected_objects_queue)]_vars

\* the second read has failed, on the open camera with the loop not stopped
C24_Witness ==
    /\ pc["capture"] = "failed"
    /\ nCaptures = 2
    /\ cap = "open"
    /\ cam_running

\* C25: at most one send_steps loop emits pulses for one ConveyorBelt: no
\* two send_steps threads are inside a pulse (between step_pin HIGH and LOW)
\* at the same time, whatever the order of the start and stop calls.
C25_OnePulseLoop ==
    \A i, j \in 1..Len(steppers) :
        (i # j) => ~(steppers[i] = "high" /\ steppers[j] = "high")

\* C26: _capture_frames never calls cap.read() once cleanup has released the
\* camera and set cap to None: the capture thread never ends on the
\* AttributeError of None.read().
C26_NoReadAfterRelease ==
    ~(pc["capture"] = "dead" /\ exc["capture"] = "AttributeError")

\* C27: in every state the stored speed lies in (0, max_speed] and
\* pulse_interval is 1 / (speed * 100) (set_speed is one step, so every
\* state is outside its critical section); adjust_speed calls set_speed only
\* with a target inside (0, max_speed], so a step whose target is outside
\* leaves the speed as it was.
C27_SpeedInRange ==
    /\ [](/\ 0 < speed
          /\ speed <= max_speed
          /\ pulse_interval = 1000000 \div speed)
    /\ [][\A t \in Adjusters :
            (adj[t].pc = "idle" /\ adj'[t].pc = "set")
                => /\ 0 < adj'[t].new_speed
                   /\ adj'[t].new_speed <= max_speed
                   /\ speed' = speed]_vars

\* the same as long as the stored speed is a number
SpeedInRangeUnlessNaN ==
    IsNaN(speed) \/ (/\ 0 < speed
                     /\ speed <= max_speed
                     /\ pulse_interval = 1000000 \div speed)

\* C28 as stated: with one caller of detect_objects and one
\* _inference_thread, result_queue never holds more than the capacity of
\* frame_queue plus one detection lists (11).
C28_ResultQueueAtMost11 ==
    Len(result_queue) <= FrameQueueMaxsize + 1

\* C28, amended: result_queue, created without a size limit, never holds
\* more than the capacity of frame_queue plus two detection lists (12): those
\* of the ten frames that were queued, of the frame that was in inference,
\* and of the frame whose caller waited in frame_queue.put.
C28_ResultQueueAtMost12 ==
    Len(result_queue) <= FrameQueueMaxsize + 2

\* twelve results wait in result_queue, none fetched yet by the caller, who
\* has put the twelfth frame and not yet tested result_queue
C28_Witness ==
    /\ Len(result_queue) = FrameQueueMaxsize + 2
    /\ frame_queue = <<>>
    /\ \E p \in Producers : prod[p].got = 0 /\ prod[p].pc = "test"

\* C29: when the Timer of an actuation whose class is neither "bolt" nor
\* "nut" expires, the servo is not commanded and no return Timer is started:
\* the angle stays as it was, the actuation ends as skipped without a move or
\* a return, and every other Timer stays as it was.
C29_UnknownClassSkipped ==
    [][\A i \in ActIds :
          (/\ acts[i].st = "pending"
           /\ acts[i].cls \notin {"bolt", "nut"}
           /\ acts'[i].st # "pending")
              => /\ angle' = angle
                 /\ afterRelease' = afterRelease
                 /\ acts' = [acts EXCEPT ![i].st = "skipped"]
                 /\ acts[i].movedAt = -1
                 /\ acts[i].returns = 0]_vars

\* the Timer of an "unknown" object has expired while the servo was at the
\* class angle of another firing, and the servo is still there
C29_Witness ==
    \E i, j \in ActIds :
        /\ acts[i].cls = "unknown"
        /\ acts[i].st = "skipped"
        /\ acts[j].st \in {"moving", "holding"}
        /\ acts[j].movedAt <= acts[i].deadline
        /\ angle = ClassAngle(acts[j].cls)
        /\ cleanupPc = "idle"

=============================================================================
